---- MODULE Spec2Model ----
(***************************************************************************)
(* Model of src/utils.py of KG-PBO: the query sampler, the objective       *)
(* evaluator, the response simulator, the comparison-data encoder and the  *)
(* model fitter's dispatch.                                                *)
(*                                                                         *)
(* Tensors are records [shape, x]: the shape is kept beside the nested     *)
(* sequence x because an empty tensor still has a shape.  Reals in [0,1)   *)
(* are quantised to small naturals.  torch's global generator is a         *)
(* deterministic state machine over 0..RngMod-1.  A call's outcome is a    *)
(* record [status, kind, value, calls]: status "ok" or "raised", kind the  *)
(* exception raised, calls the external calls made, in order.  Each        *)
(* specification draws a call's arguments in its initial state (arg) and   *)
(* its actions make that call.                                             *)
(***************************************************************************)
EXTENDS Integers, Sequences, FiniteSets, TLC

VARIABLES rng, op, arg, ret, prev

vars == <<rng, op, arg, ret, prev>>

\* ---- bounds of the model ------------------------------------------------
MaxN == 2

MaxB == 3

MaxD == 1

MaxSeed == 1

MaxNoise == 1

RngMod == 5

\* seed = None
NoSeed == -1

RngStates == 0 .. (RngMod - 1)

Seeds == 0 .. MaxSeed

\* ---- torch's global random generator -------------------------------------
\* one step of the generator (a counter-based generator)
NextState(s) == (s + 1) % RngMod

\* the uniform value in [0,1) read off a generator state, quantised to 0..2
Uniform(s) == ((s * s) \div 2) % 3

\* torch.manual_seed(seed): the state the generator is put in
ManualSeed(seed) == (2 * seed + 1) % RngMod

RECURSIVE RandSeq(_, _)
\* n successive draws from state s: the values and the state left behind
RandSeq(s, n) ==
  IF n = 0 THEN [state |-> s, vals |-> <<>>]
  ELSE LET s1 == NextState(s)
           r == RandSeq(s1, n - 1)
       IN [state |-> r.state, vals |-> <<Uniform(s1)>> \o r.vals]

\* ---- tensors --------------------------------------------------------------
RECURSIVE Prod(_)
Prod(shape) == IF shape = <<>> THEN 1 ELSE Head(shape) * Prod(Tail(shape))

RECURSIVE Concat(_)
\* the concatenation of a sequence of sequences
Concat(ss) == IF ss = <<>> THEN <<>> ELSE Head(ss) \o Concat(Tail(ss))

\* rows of length w cut from a flat sequence, n of them
Rows(flat, n, w) == [i \in 1 .. n |-> SubSeq(flat, (i - 1) * w + 1, i * w)]

\* a tensor of shape <<N, B, D>> from its elements in row-major order
Tensor3(flat, N, B, D) ==
  [shape |-> <<N, B, D>>,
   x |-> [i \in 1 .. N |-> Rows(SubSeq(flat, (i - 1) * B * D + 1, i * B * D), B, D)]]

\* the elements of a 3-d tensor in row-major order
Flat3(t) == Concat(Concat(t.x))

\* torch.rand(shape) on generator state s
TorchRand(s, shape) ==
  IF \E k \in 1 .. Len(shape) : shape[k] < 0
  THEN [status |-> "raised", kind |-> "RuntimeError", state |-> s, flat |-> <<>>]
  ELSE LET r == RandSeq(s, Prod(shape))
       IN [status |-> "ok", kind |-> "none", state |-> r.state, flat |-> r.vals]

NoValue == [shape |-> <<>>, x |-> <<>>]

\* ---- generate_random_queries ----------------------------------------------
\* a faulty variant: the seeded branch without set_rng_state(old_state)
GenerateRandomQueriesNoRestore(g, num_queries, batch_size, input_dim, seed) ==
  LET r == TorchRand(IF seed # NoSeed THEN ManualSeed(seed) ELSE g,
                     <<num_queries, batch_size, input_dim>>)
  IN [status |-> r.status, kind |-> r.kind, rng |-> r.state,
      value |-> IF r.status = "ok"
                THEN Tensor3(r.flat, num_queries, batch_size, input_dim)
                ELSE NoValue,
      calls |-> IF seed # NoSeed THEN <<"get_rng_state", "manual_seed", "rand">>
                ELSE <<"rand">>]

\* a faulty variant: the seeded branch without torch.manual_seed(seed)
GenerateRandomQueriesNoSeeding(g, num_queries, batch_size, input_dim, seed) ==
  LET r == TorchRand(g, <<num_queries, batch_size, input_dim>>)
  IN [status |-> r.status, kind |-> r.kind,
      rng |-> IF seed # NoSeed /\ r.status = "ok" THEN g ELSE r.state,
      value |-> IF r.status = "ok"
                THEN Tensor3(r.flat, num_queries, batch_size, input_dim)
                ELSE NoValue,
      calls |-> <<"rand">>]

\* the call on generator state g: its outcome and the generator state it leaves
GenerateRandomQueriesFn(g, num_queries, batch_size, input_dim, seed) ==
  IF seed # NoSeed
  THEN LET old_state == g
           r == TorchRand(ManualSeed(seed), <<num_queries, batch_size, input_dim>>)
       IN IF r.status = "raised"
          THEN \* torch.rand raised: set_rng_state is never reached
               [status |-> "raised", kind |-> r.kind, rng |-> r.state,
                value |-> NoValue,
                calls |-> <<"get_rng_state", "manual_seed", "rand">>]
          ELSE [status |-> "ok", kind |-> "none", rng |-> old_state,
                value |-> Tensor3(r.flat, num_queries, batch_size, input_dim),
                calls |-> <<"get_rng_state", "manual_seed", "rand", "set_rng_state">>]
  ELSE LET r == TorchRand(g, <<num_queries, batch_size, input_dim>>)
       IN [status |-> r.status, kind |-> r.kind, rng |-> r.state,
           value |-> IF r.status = "ok"
                     THEN Tensor3(r.flat, num_queries, batch_size, input_dim)
                     ELSE NoValue,
           calls |-> <<"rand">>]

\* what a call leaves in ret: its outcome and the generator state at its entry
Outcome(r, g) ==
  [status |-> r.status, kind |-> r.kind, value |-> r.value, calls |-> r.calls, rng0 |-> g]

NoOutcome ==
  [status |-> "none", kind |-> "none", value |-> NoValue, calls |-> <<>>, rng0 |-> 0]

NoPrev == [set |-> FALSE, value |-> NoValue, rng0 |-> 0]

\* one call of generate_random_queries with the arguments of arg.  prev is a
\* history variable: the result and entry state of the call before this one,
\* when that call was seeded and returned
GenerateRandomQueries ==
  /\ arg.fn = "generate_random_queries"
  /\ \E r \in {GenerateRandomQueriesFn(rng, arg.num_queries, arg.batch_size,
                                       arg.input_dim, arg.seed)} :
       /\ op' = "generate_random_queries"
       /\ ret' = Outcome(r, rng)
       /\ rng' = r.rng
  /\ prev' = IF arg.seed # NoSeed /\ ret.status = "ok"
             THEN [set |-> TRUE, value |-> ret.value, rng0 |-> ret.rng0]
             ELSE NoPrev
  /\ UNCHANGED arg

\* an unseeded draw from the global generator made elsewhere in the process
\* (such as the noise sampling of corrupt_obj_vals) between two sampler calls
Draw ==
  /\ rng' = NextState(rng)
  /\ op' = "draw"
  /\ UNCHANGED <<arg, ret, prev>>

SamplerCalls ==
  [fn : {"generate_random_queries"}, num_queries : -1 .. MaxN, batch_size : -1 .. MaxB,
   input_dim : -1 .. MaxD, seed : {NoSeed} \cup Seeds]

InitSampler ==
  /\ rng \in RngStates
  /\ op = "none"
  /\ arg \in SamplerCalls
  /\ ret = NoOutcome
  /\ prev = NoPrev

NextSampler == GenerateRandomQueries \/ Draw

SpecSampler == InitSampler /\ [][NextSampler]_vars

\* ---- inputs of the data functions ------------------------------------------
\* the query batches of the given sizes that the sampler can produce
QueryBatches(Ns, Bs, Ds) ==
  {Tensor3(RandSeq(s, N * B * D).vals, N, B, D) :
     s \in RngStates, N \in Ns, B \in Bs, D \in Ds}

\* the response vectors of a query batch: one index in [0, batch_size) per query
ResponsesOf(queries) == [1 .. queries.shape[1] -> 0 .. (queries.shape[2] - 1)]

\* ---- training_data_for_pairwise_gp ----------------------------------------
\* torch.cat(rows, dim=0): fails on an empty list
TorchCat(rows) ==
  IF rows = <<>> THEN [status |-> "raised", kind |-> "RuntimeError", rows |-> <<>>]
  ELSE [status |-> "ok", kind |-> "none", rows |-> rows]

\* a faulty variant: the loser first
ComparisonRowSwapped(batch_size, i, j, responses) ==
  <<batch_size * i + j, batch_size * i + responses[i + 1]>>

\* a faulty variant: indices within the query instead of global row indices
ComparisonRowLocal(batch_size, i, j, responses) ==
  <<responses[i + 1], j>>

\* the pair appended for item j of query i
ComparisonRow(batch_size, i, j, responses) ==
  <<batch_size * i + responses[i + 1], batch_size * i + j>>

RECURSIVE ItemLoop(_, _, _, _, _)
\* for j in range(batch_size), from j on, within query i
ItemLoop(queries, responses, i, j, acc) ==
  IF j >= queries.shape[2] THEN acc
  ELSE ItemLoop(queries, responses, i, j + 1,
         [datapoints |-> Append(acc.datapoints, queries.x[i + 1][j + 1]),
          comparisons |->
            IF j # responses[i + 1]
            THEN Append(acc.comparisons, ComparisonRow(queries.shape[2], i, j, responses))
            ELSE acc.comparisons])

RECURSIVE QueryLoop(_, _, _, _)
\* for i in range(num_queries), from i on
QueryLoop(queries, responses, i, acc) ==
  IF i >= queries.shape[1] THEN acc
  ELSE QueryLoop(queries, responses, i + 1, ItemLoop(queries, responses, i, 0, acc))

TrainingDataForPairwiseGpFn(queries, responses) ==
  LET lists == QueryLoop(queries, responses, 0, [datapoints |-> <<>>, comparisons |-> <<>>])
      datapoints == TorchCat(lists.datapoints)
      comparisons == TorchCat(lists.comparisons)
  IN IF datapoints.status = "raised" \/ comparisons.status = "raised"
     THEN [status |-> "raised", kind |-> "RuntimeError",
           value |-> [datapoints |-> <<>>, comparisons |-> <<>>], calls |-> <<>>]
     ELSE [status |-> "ok", kind |-> "none",
           value |-> [datapoints |-> datapoints.rows, comparisons |-> comparisons.rows],
           calls |-> <<>>]

TrainingDataForPairwiseGp ==
  /\ op = "none"
  /\ arg.fn = "training_data_for_pairwise_gp"
  /\ op' = arg.fn
  /\ ret' = Outcome(TrainingDataForPairwiseGpFn(arg.queries, arg.responses), rng)
  /\ UNCHANGED <<rng, arg, prev>>

EncoderCalls ==
  UNION {[fn : {"training_data_for_pairwise_gp"}, queries : {q}, responses : ResponsesOf(q)] :
           q \in QueryBatches(0 .. MaxN, 1 .. MaxB, 1 .. MaxD)}

\* ---- fit_model --------------------------------------------------------------
NoModel == [family |-> "none"]

FitModelFn(queries, responses, model_type, likelihood) ==
  IF model_type = "pairwise_gp"
  THEN LET likelihood_func == IF likelihood = "probit" THEN <<"PairwiseProbitLikelihood">>
                              ELSE IF likelihood = "logit" THEN <<"PairwiseLogitLikelihood">>
                              ELSE <<>>
           data == TrainingDataForPairwiseGpFn(queries, responses)
           encoded == likelihood_func \o <<"training_data_for_pairwise_gp">>
       IN IF data.status = "raised"
          THEN [status |-> "raised", kind |-> data.kind, value |-> NoModel, calls |-> encoded]
          ELSE IF likelihood_func = <<>>
          THEN \* likelihood_func is read unbound, after the data was encoded
               [status |-> "raised", kind |-> "UnboundLocalError", value |-> NoModel,
                calls |-> encoded]
          ELSE [status |-> "ok", kind |-> "none",
                value |-> [family |-> "pairwise_gp", likelihood |-> likelihood,
                           datapoints |-> data.value.datapoints,
                           comparisons |-> data.value.comparisons],
                calls |-> encoded \o <<"PairwiseGP", "PairwiseLaplaceMarginalLogLikelihood",
                                       "fit_gpytorch_model", "to">>]
  ELSE IF model_type = "pairwise_kernel_variational_gp"
  THEN [status |-> "ok", kind |-> "none",
        value |-> [family |-> "pairwise_kernel_variational_gp", queries |-> queries,
                   responses |-> responses],
        calls |-> <<"PairwiseKernelVariationalGP">>]
  ELSE \* model is read unbound by the return
       [status |-> "raised", kind |-> "UnboundLocalError", value |-> NoModel, calls |-> <<>>]

FitModel ==
  /\ op = "none"
  /\ arg.fn = "fit_model"
  /\ op' = arg.fn
  /\ ret' = Outcome(FitModelFn(arg.queries, arg.responses, arg.model_type, arg.likelihood), rng)
  /\ UNCHANGED <<rng, arg, prev>>

ModelTypes == {"pairwise_gp", "pairwise_kernel_variational_gp", "other"}

Likelihoods == {"probit", "logit", "other", "None"}

FitCalls ==
  UNION {[fn : {"fit_model"}, queries : {q}, responses : ResponsesOf(q),
          model_type : ModelTypes, likelihood : Likelihoods] :
           q \in QueryBatches(1 .. MaxN, 2 .. MaxB, {1})}

\* ---- get_obj_vals -----------------------------------------------------------
RECURSIVE Sum(_)
Sum(xs) == IF xs = <<>> THEN 0 ELSE Head(xs) + Sum(Tail(xs))

\* the objective functions handed to get_obj_vals: on an (n, input_dim) array
\* they return n values.  first_coord is the identity on 1-dimensional points;
\* running_sum is batched but does not evaluate each point independently
ObjFunc(obj_func, points) ==
  IF obj_func = "first_coord" THEN [k \in 1 .. Len(points) |-> points[k][1]]
  ELSE IF obj_func = "neg_sum" THEN [k \in 1 .. Len(points) |-> 0 - Sum(points[k])]
  ELSE [k \in 1 .. Len(points) |-> Sum([m \in 1 .. k |-> points[m][1]])]

PointwiseObjFuncs == {"first_coord", "neg_sum"}

ObjFuncs == PointwiseObjFuncs \cup {"running_sum"}

\* queries.reshape([N * B, D])
Reshape2d(queries) ==
  Rows(Flat3(queries), queries.shape[1] * queries.shape[2], queries.shape[3])

\* a faulty variant: the outputs regrouped column by column
ReshapeObjValsTransposed(out, N, B) ==
  [shape |-> <<N, B>>, x |-> [i \in 1 .. N |-> [j \in 1 .. B |-> out[(j - 1) * N + i]]]]

\* obj_vals.reshape([N, B])
ReshapeObjVals(out, N, B) == [shape |-> <<N, B>>, x |-> Rows(out, N, B)]

GetObjValsFn(queries, obj_func) ==
  LET queries_2d == Reshape2d(queries)
      out == ObjFunc(obj_func, queries_2d)
  IN [status |-> "ok", kind |-> "none",
      value |-> ReshapeObjVals(out, queries.shape[1], queries.shape[2]),
      calls |-> <<[fn |-> "obj_func", points |-> queries_2d]>>]

GetObjVals ==
  /\ op = "none"
  /\ arg.fn = "get_obj_vals"
  /\ op' = arg.fn
  /\ ret' = Outcome(GetObjValsFn(arg.queries, arg.obj_func), rng)
  /\ UNCHANGED <<rng, arg, prev>>

EvaluatorCalls ==
  [fn : {"get_obj_vals"}, queries : QueryBatches(0 .. MaxN, 1 .. MaxB, 1 .. MaxD),
   obj_func : ObjFuncs]

InitData ==
  /\ rng = 0
  /\ op = "none"
  /\ arg \in EncoderCalls \cup FitCalls \cup EvaluatorCalls
  /\ ret = NoOutcome
  /\ prev = NoPrev

NextData == TrainingDataForPairwiseGp \/ FitModel \/ GetObjVals

SpecData == InitData /\ [][NextData]_vars

\* ---- corrupt_obj_vals, generate_responses ------------------------------------
\* Normal(0, noise_level).sample(shape): one draw of the global generator per
\* entry, centred on 0 and scaled by noise_level
NormalSample(g, noise_level, n) ==
  LET r == RandSeq(g, n)
  IN [state |-> r.state, vals |-> [k \in 1 .. n |-> noise_level * (r.vals[k] - 1)]]

\* Gumbel(0, noise_level).sample(shape): one draw per entry, skewed to the right
GumbelSample(g, noise_level, n) ==
  LET r == RandSeq(g, n)
  IN [state |-> r.state,
      vals |-> [k \in 1 .. n |-> noise_level * (r.vals[k] * r.vals[k] - 1)]]

\* obj_vals + noise, entry by entry
AddNoise(obj_vals, noise) ==
  [shape |-> obj_vals.shape,
   x |-> [i \in 1 .. obj_vals.shape[1] |->
           [j \in 1 .. obj_vals.shape[2] |->
              obj_vals.x[i][j] + noise[(i - 1) * obj_vals.shape[2] + j]]]]

CorruptObjValsFn(g, obj_vals, noise_type, noise_level) ==
  LET n == obj_vals.shape[1] * obj_vals.shape[2]
  IN IF noise_type = "noiseless"
     THEN [status |-> "ok", kind |-> "none", rng |-> g, value |-> obj_vals, calls |-> <<>>]
     ELSE IF noise_type = "probit"
     THEN LET noise == NormalSample(g, noise_level, n)
          IN [status |-> "ok", kind |-> "none", rng |-> noise.state,
              value |-> AddNoise(obj_vals, noise.vals), calls |-> <<"Normal.sample">>]
     ELSE IF noise_type = "logit"
     THEN LET noise == GumbelSample(g, noise_level, n)
          IN [status |-> "ok", kind |-> "none", rng |-> noise.state,
              value |-> AddNoise(obj_vals, noise.vals), calls |-> <<"Gumbel.sample">>]
     ELSE \* corrupted_obj_vals is read unbound by the return
          [status |-> "raised", kind |-> "UnboundLocalError", rng |-> g,
           value |-> NoValue, calls |-> <<>>]

RECURSIVE ArgmaxLastFrom(_, _, _)
\* a faulty variant: ties broken by the highest index
ArgmaxLastFrom(row, j, best) ==
  IF j >= Len(row) THEN best
  ELSE ArgmaxLastFrom(row, j + 1, IF row[j + 1] >= row[best + 1] THEN j ELSE best)

RECURSIVE ArgmaxFrom(_, _, _)
\* the scan of torch.argmax from index j on: best is the index of the first
\* maximal value among those seen
ArgmaxFrom(row, j, best) ==
  IF j >= Len(row) THEN best
  ELSE ArgmaxFrom(row, j + 1, IF row[j + 1] > row[best + 1] THEN j ELSE best)

\* torch.argmax(t, dim=-1)
Argmax(t) == [i \in 1 .. t.shape[1] |-> ArgmaxFrom(t.x[i], 1, 0)]

GenerateResponsesFn(g, obj_vals, noise_type, noise_level) ==
  LET corrupted_obj_vals == CorruptObjValsFn(g, obj_vals, noise_type, noise_level)
  IN IF corrupted_obj_vals.status = "raised"
     THEN [corrupted_obj_vals EXCEPT !.calls = <<"corrupt_obj_vals">> \o @]
     ELSE [status |-> "ok", kind |-> "none", rng |-> corrupted_obj_vals.rng,
           value |-> Argmax(corrupted_obj_vals.value),
           calls |-> <<"corrupt_obj_vals">> \o corrupted_obj_vals.calls \o <<"argmax">>]

CorruptObjVals ==
  /\ op = "none"
  /\ arg.fn = "corrupt_obj_vals"
  /\ \E r \in {CorruptObjValsFn(rng, arg.obj_vals, arg.noise_type, arg.noise_level)} :
       /\ ret' = Outcome(r, rng)
       /\ rng' = r.rng
  /\ op' = arg.fn
  /\ UNCHANGED <<arg, prev>>

GenerateResponses ==
  /\ op = "none"
  /\ arg.fn = "generate_responses"
  /\ \E r \in {GenerateResponsesFn(rng, arg.obj_vals, arg.noise_type, arg.noise_level)} :
       /\ ret' = Outcome(r, rng)
       /\ rng' = r.rng
  /\ op' = arg.fn
  /\ UNCHANGED <<arg, prev>>

\* ---- generate_initial_data --------------------------------------------------
GenerateInitialDataFn(g, num_queries, batch_size, input_dim, obj_func, comp_noise_type, comp_noise, seed) ==
  LET queries == GenerateRandomQueriesFn(g, num_queries, batch_size, input_dim, seed)
      obj_vals == GetObjValsFn(queries.value, obj_func)
      responses == GenerateResponsesFn(queries.rng, obj_vals.value, comp_noise_type, comp_noise)
      none == [queries |-> NoValue, obj_vals |-> NoValue, responses |-> <<>>]
  IN IF queries.status = "raised"
     THEN [status |-> "raised", kind |-> queries.kind, rng |-> queries.rng, value |-> none,
           calls |-> <<"generate_random_queries">>]
     ELSE IF responses.status = "raised"
     THEN [status |-> "raised", kind |-> responses.kind, rng |-> responses.rng,
           value |-> none,
           calls |-> <<"generate_random_queries", "get_obj_vals", "generate_responses">>]
     ELSE [status |-> "ok", kind |-> "none", rng |-> responses.rng,
           value |-> [queries |-> queries.value, obj_vals |-> obj_vals.value,
                      responses |-> responses.value],
           calls |-> <<"generate_random_queries", "get_obj_vals", "generate_responses">>
                       \o responses.calls]

GenerateInitialData ==
  /\ op = "none"
  /\ arg.fn = "generate_initial_data"
  /\ \E r \in {GenerateInitialDataFn(rng, arg.num_queries, arg.batch_size, arg.input_dim,
                                     arg.obj_func, arg.comp_noise_type, arg.comp_noise,
                                     arg.seed)} :
       /\ ret' = Outcome(r, rng)
       /\ rng' = r.rng
  /\ op' = arg.fn
  /\ UNCHANGED <<arg, prev>>

NoiseTypes == {"noiseless", "probit", "logit", "other"}

\* the noise levels a noise type is called with: Normal and Gumbel need a
\* positive scale, the other branches never read it
NoiseLevels(noise_type) ==
  IF noise_type \in {"probit", "logit"} THEN 1 .. MaxNoise ELSE 0 .. MaxNoise

\* the objective values get_obj_vals can return
ObjVals ==
  {GetObjValsFn(q, f).value :
     q \in QueryBatches(1 .. MaxN, 1 .. MaxB, 1 .. MaxD), f \in ObjFuncs}

SimulatorCalls ==
  UNION {[fn : {"corrupt_obj_vals", "generate_responses"}, obj_vals : ObjVals,
          noise_type : {t}, noise_level : NoiseLevels(t)] : t \in NoiseTypes}

InitialDataCalls ==
  UNION {[fn : {"generate_initial_data"}, num_queries : 1 .. MaxN, batch_size : 1 .. MaxB,
          input_dim : 1 .. MaxD, obj_func : ObjFuncs, comp_noise_type : {t},
          comp_noise : NoiseLevels(t), seed : {NoSeed} \cup Seeds] : t \in NoiseTypes}

InitSim ==
  /\ rng \in RngStates
  /\ op = "none"
  /\ arg \in SimulatorCalls \cup InitialDataCalls
  /\ ret = NoOutcome
  /\ prev = NoPrev

NextSim == CorruptObjVals \/ GenerateResponses \/ GenerateInitialData

SpecSim == InitSim /\ [][NextSim]_vars

\* the exceptions by which Python or torch reject the value of an argument;
\* an UnboundLocalError is none of them
InvalidArgument(kind) == kind \in {"ValueError", "TypeError", "RuntimeError"}

\* ---- properties of the comparison-data encoder --------------------------------
Encoded ==
  /\ op = "training_data_for_pairwise_gp"
  /\ arg.queries.shape[1] >= 1
  /\ arg.queries.shape[2] >= 2

\* C1: for N >= 1 queries of B >= 2 items and responses in [0, B), datapoints
\* has N*B rows and comparisons N*(B-1) rows, every comparison's winner is the
\* response-selected row of the query its loser belongs to (so never its own
\* loser), and every query is the winner's query of exactly B-1 comparisons
ThmC1 ==
  Encoded =>
    LET N == arg.queries.shape[1]
        B == arg.queries.shape[2]
        comparisons == ret.value.comparisons
    IN /\ ret.status = "ok"
       /\ Len(ret.value.datapoints) = N * B
       /\ Len(comparisons) = N * (B - 1)
       /\ \A k \in 1 .. Len(comparisons) :
            LET i == comparisons[k][2] \div B
            IN /\ i \in 0 .. (N - 1)
               /\ comparisons[k][1] = i * B + arg.responses[i + 1]
               /\ comparisons[k][1] # comparisons[k][2]
       /\ \A i \in 0 .. (N - 1) :
            Cardinality({k \in 1 .. Len(comparisons) : comparisons[k][1] \div B = i}) = B - 1

\* two queries of three items were encoded, with different winners
WitC1 ==
  /\ Encoded
  /\ arg.queries.shape[1] = 2
  /\ arg.queries.shape[2] = 3
  /\ arg.responses = <<2, 0>>
  /\ Len(ret.value.comparisons) = 4

\* the comparisons of query i, in item order, without the winner
ExpectedComparisons(i, B, winner) ==
  [m \in 1 .. (B - 1) |-> <<i * B + winner, i * B + (IF m - 1 < winner THEN m - 1 ELSE m)>>]

\* C2: comparisons is the sequence got by visiting the queries in order and in
\* each the items in order, the winner skipped, emitting (i*B + response[i],
\* i*B + j); and row i*B + j of datapoints is point j of query i
ThmC2 ==
  Encoded =>
    LET N == arg.queries.shape[1]
        B == arg.queries.shape[2]
    IN /\ ret.value.comparisons =
            Concat([q \in 1 .. N |-> ExpectedComparisons(q - 1, B, arg.responses[q])])
       /\ \A i \in 0 .. (N - 1), j \in 0 .. (B - 1) :
            ret.value.datapoints[i * B + j + 1] = arg.queries.x[i + 1][j + 1]

\* two queries of three items were encoded, the winner of the first in the
\* middle, and the points of the batch are not all equal
WitC2 ==
  /\ Encoded
  /\ arg.queries.shape[1] = 2
  /\ arg.queries.shape[2] = 3
  /\ arg.responses = <<1, 2>>
  /\ ret.value.comparisons = <<<<1, 0>>, <<1, 2>>, <<5, 3>>, <<5, 4>>>>
  /\ \E k \in 2 .. 6 : ret.value.datapoints[k] # ret.value.datapoints[1]

\* ---- properties of the model fitter ---------------------------------------------
\* C5: fit_model fails with an invalid-argument error on an unrecognised
\* model_type, and on an unrecognised likelihood under "pairwise_gp", before
\* any data is encoded or any model built, and returns no model
CexC5 ==
  (/\ op = "fit_model"
   /\ \/ arg.model_type \notin {"pairwise_gp", "pairwise_kernel_variational_gp"}
      \/ arg.model_type = "pairwise_gp" /\ arg.likelihood \notin {"probit", "logit"}) =>
    /\ ret.status = "raised"
    /\ InvalidArgument(ret.kind)
    /\ ret.calls = <<>>
    /\ ret.value = NoModel

\* ---- properties of the objective evaluator --------------------------------------
\* the points of a batch in query-major, item-minor order
QueryMajor(queries) ==
  [k \in 1 .. (queries.shape[1] * queries.shape[2]) |->
     queries.x[((k - 1) \div queries.shape[2]) + 1][((k - 1) % queries.shape[2]) + 1]]

\* C9: get_obj_vals calls the objective once, on the N*B points in query-major,
\* item-minor order; entry (i, j) of its (N, B) result is the objective's output
\* at position i*B + j, which for an objective that evaluates each point
\* independently is its value on point j of query i alone
ThmC9 ==
  (op = "get_obj_vals") =>
    LET N == arg.queries.shape[1]
        B == arg.queries.shape[2]
        out == ObjFunc(arg.obj_func, QueryMajor(arg.queries))
    IN /\ ret.status = "ok"
       /\ Len(ret.calls) = 1
       /\ ret.calls[1].points = QueryMajor(arg.queries)
       /\ ret.value.shape = <<N, B>>
       /\ Len(ret.value.x) = N
       /\ \A i \in 0 .. (N - 1) :
            /\ Len(ret.value.x[i + 1]) = B
            /\ \A j \in 0 .. (B - 1) :
                 /\ ret.value.x[i + 1][j + 1] = out[i * B + j + 1]
                 /\ arg.obj_func \in PointwiseObjFuncs =>
                      ret.value.x[i + 1][j + 1] =
                        ObjFunc(arg.obj_func, <<arg.queries.x[i + 1][j + 1]>>)[1]

\* a batch of two queries of three points was evaluated and the values of the
\* first query are not those of the second
WitC9 ==
  /\ op = "get_obj_vals"
  /\ arg.queries.shape[1] = 2
  /\ arg.queries.shape[2] = 3
  /\ arg.obj_func \in PointwiseObjFuncs
  /\ ret.value.x[1] # ret.value.x[2]
  /\ ret.value.x[1][1] # ret.value.x[1][2]

\* ---- properties of the response simulator ---------------------------------------
UnknownNoise ==
  \/ /\ op \in {"corrupt_obj_vals", "generate_responses"}
     /\ arg.noise_type \notin {"noiseless", "probit", "logit"}
  \/ /\ op = "generate_initial_data"
     /\ arg.comp_noise_type \notin {"noiseless", "probit", "logit"}

\* C6: with an unrecognised noise_type corrupt_obj_vals, and so
\* generate_responses and generate_initial_data, fails with an invalid-argument
\* error; no noise is drawn and no response is returned
CexC6 ==
  UnknownNoise =>
    /\ ret.status = "raised"
    /\ InvalidArgument(ret.kind)
    /\ \A k \in 1 .. Len(ret.calls) : ret.calls[k] \notin {"Normal.sample", "Gumbel.sample"}
    /\ op # "generate_initial_data" => rng = ret.rng0 /\ ret.value = NoValue
    /\ op = "generate_initial_data" => ret.value.responses = <<>>

\* the lowest index at which a row attains its maximum
IsFirstMax(row, j) ==
  /\ j \in 0 .. (Len(row) - 1)
  /\ \A k \in 1 .. Len(row) : row[k] <= row[j + 1]
  /\ \A k \in 1 .. j : row[k] < row[j + 1]

\* C8: with noise_type "noiseless", whatever the noise_level, corrupt_obj_vals
\* returns the objective values unchanged and generate_responses returns for
\* every query the lowest index at which its objective values are maximal; so
\* generate_initial_data with batch_size 2 and the identity objective on
\* 1-dimensional points selects in every pair an item with the larger coordinate
ThmC8 ==
  /\ (op = "corrupt_obj_vals" /\ arg.noise_type = "noiseless") =>
       ret.status = "ok" /\ ret.value = arg.obj_vals /\ rng = ret.rng0
  /\ (op = "generate_responses" /\ arg.noise_type = "noiseless") =>
       /\ ret.status = "ok"
       /\ Len(ret.value) = arg.obj_vals.shape[1]
       /\ \A i \in 1 .. arg.obj_vals.shape[1] : IsFirstMax(arg.obj_vals.x[i], ret.value[i])
  /\ (/\ op = "generate_initial_data"
      /\ arg.comp_noise_type = "noiseless"
      /\ arg.obj_func = "first_coord"
      /\ arg.batch_size = 2
      /\ arg.input_dim = 1) =>
       /\ ret.status = "ok"
       /\ \A i \in 1 .. arg.num_queries :
            LET pair == ret.value.queries.x[i]
                chosen == ret.value.responses[i]
            IN /\ chosen \in {0, 1}
               /\ pair[chosen + 1][1] >= pair[1][1]
               /\ pair[chosen + 1][1] >= pair[2][1]
               /\ (chosen = 1) => pair[2][1] > pair[1][1]

\* noiseless responses were generated for a query whose maximum is attained
\* twice, and for a query whose maximum is not its first value
WitC8 ==
  /\ op = "generate_responses"
  /\ arg.noise_type = "noiseless"
  /\ arg.noise_level > 0
  /\ \E i \in 1 .. arg.obj_vals.shape[1] :
       \E j \in 1 .. Len(arg.obj_vals.x[i]) :
         j > ret.value[i] + 1 /\ arg.obj_vals.x[i][j] = arg.obj_vals.x[i][ret.value[i] + 1]
  /\ \E i \in 1 .. arg.obj_vals.shape[1] : ret.value[i] > 0

\* ---- properties of the query sampler ---------------------------------------
JustSampled == op = "generate_random_queries"

\* C3: a seeded call that returns leaves the global generator in the state it
\* had at call entry, so the next unseeded draw yields what it would have
\* yielded without the call; an unseeded call only draws: it neither seeds nor
\* saves nor restores, and its batch is read off the generator's entry state
ThmC3 ==
  (JustSampled /\ ret.status = "ok") =>
    IF arg.seed # NoSeed
    THEN /\ rng = ret.rng0
         /\ RandSeq(rng, 1).vals = RandSeq(ret.rng0, 1).vals
    ELSE LET n == arg.num_queries * arg.batch_size * arg.input_dim
         IN /\ ret.calls = <<"rand">>
            /\ Flat3(ret.value) = RandSeq(ret.rng0, n).vals
            /\ rng = RandSeq(ret.rng0, n).state

\* a seeded call returned a non-empty batch from an entry state other than the
\* seeded one
WitC3 ==
  /\ JustSampled
  /\ arg.seed # NoSeed
  /\ ret.status = "ok"
  /\ Len(Flat3(ret.value)) > 1
  /\ ret.rng0 # ManualSeed(arg.seed)

\* C4: two calls with the same sizes and the same seed return the same batch,
\* whatever the generator's state before each and whatever is drawn in between
ThmC4 ==
  (JustSampled /\ arg.seed # NoSeed /\ ret.status = "ok" /\ prev.set) =>
    ret.value = prev.value

\* the second of two seeded calls returned a non-empty batch, and the two were
\* entered with the generator in different states
WitC4 ==
  /\ JustSampled
  /\ arg.seed # NoSeed
  /\ ret.status = "ok"
  /\ prev.set
  /\ Len(Flat3(ret.value)) > 1
  /\ prev.rng0 # ret.rng0

\* C7: with a non-positive size the call fails with an invalid-argument error
\* and returns no batch, seeded or not
CexC7 ==
  (JustSampled /\ (arg.num_queries <= 0 \/ arg.batch_size <= 0 \/ arg.input_dim <= 0)) =>
    /\ ret.status = "raised"
    /\ InvalidArgument(ret.kind)
    /\ ret.value = NoValue

\* C10: a seeded call leaves the generator in its entry state on every exit
\* path, failure included
CexC10 ==
  (JustSampled /\ arg.seed # NoSeed) => rng = ret.rng0

\* noiseless initial data with the identity objective on pairs of 1-dimensional
\* points: one response selects the second item, another the first
WitC8Pairs ==
  /\ op = "generate_initial_data"
  /\ arg.comp_noise_type = "noiseless"
  /\ arg.obj_func = "first_coord"
  /\ arg.batch_size = 2
  /\ arg.input_dim = 1
  /\ ret.status = "ok"
  /\ \E i, k \in 1 .. arg.num_queries : ret.value.responses[i] = 1 /\ ret.value.responses[k] = 0

====
